---- MODULE Spec2Model ----
(***************************************************************************)
(* ThingiverseService (src/thingiverse/ThingiverseService.py): the view-   *)
(* model that serves Thingiverse content to the UI, together with the      *)
(* requests it hands to the API client and the replies that come back.     *)
(*                                                                         *)
(* Python values are encoded as follows.                                   *)
(*   Optional[T]      <<>> is None, <<v>> is the value v                   *)
(*   str              a TLA+ string; file names, whose characters are      *)
(*                    inspected, are sequences of one-character strings    *)
(*   attribute unset  <<>> (self._is_querying is not assigned in __init__) *)
(* Every action is one whole handler; `events` is the ordered log of what  *)
(* that handler did to the outside world (signals emitted, requests        *)
(* issued, collaborator calls), headed by the name of the handler and     *)
(* what it was called with; it is overwritten by every handler.            *)
(***************************************************************************)
EXTENDS Integers, Sequences, FiniteSets, TLC

VARIABLES
    message,              \* self._message              Optional[str]
    things,               \* self._things               list of Thing
    query,                \* self._query                str
    query_page,           \* self._query_page           int
    is_from_collection,   \* self._is_from_collection   bool
    is_querying,          \* self._is_querying          unset or bool
    thing_details,        \* self._thing_details        Optional[Thing]
    thing_files,          \* self._thing_files          list of ThingFile
    is_downloading,       \* self._is_downloading       bool
    user_name,            \* self._user_name            Optional[str]
    supported_file_types, \* self._supported_file_types list of str (as a set)
    preferences,          \* the stored user name preference, Optional[str]
    network,              \* requests issued and not yet answered, in issue order
    events,               \* what the last handler did, in order
    commands              \* how many commands the UI has invoked so far

vars == <<message, things, query, query_page, is_from_collection, is_querying,
          thing_details, thing_files, is_downloading, user_name,
          supported_file_types, preferences, network, events, commands>>

serviceVars == <<message, things, query, query_page, is_from_collection,
                 is_querying, thing_details, thing_files, is_downloading,
                 user_name, supported_file_types>>

-----------------------------------------------------------------------------
(* Bounds of the model.                                                    *)

MaxCommands == 2      \* commands the UI invokes in one run
MaxInFlight == 2      \* requests that may be unanswered at once

-----------------------------------------------------------------------------
(* Inputs.                                                                 *)

None == <<>>
Some(v) == <<v>>

Terms == {"foo"}
UserNames == {None, Some(""), Some("alice")}
CollectionIds == {7}
ThingIds == {1, 2}
FileIds == {42}
DownloadNames == {"part.stl"}
Bytes == {"bytes-A", "bytes-B"}
Messages == {"hello"}
SettingNames == {"user_name", "other"}
SettingValues == {"alice", "bob"}

\* File names as character sequences.
aSTL == <<"a", ".", "S", "T", "L">>
bGcode == <<"b", ".", "g", "c", "o", "d", "e">>
cObj == <<"c", ".", "o", "b", "j">>
dotStl == <<".", "s", "t", "l">>
stlDot == <<"d", ".", "s", "t", "l", ".">>
tarGZ == <<"m", ".", "o", "b", "j", ".", "G", "Z">>
noExt == <<"s", "t", "l">>

stl == <<"s", "t", "l">>
obj == <<"o", "b", "j">>
gz == <<"g", "z">>

File(i, n) == [id |-> i, name |-> n]

gcode == <<"g", "c", "o", "d", "e">>

\* The file listings the remote service may return for a thing.
FileLists ==
    { <<File(1, aSTL), File(2, bGcode), File(3, cObj)>>, <<>> }

\* What getSupportedFileTypesRead() of the host may report (lower-case keys).
HostFileTypes == { {stl, obj} }

\* The wider inputs of the specification of the file-type filter.
FilterNames == {aSTL, bGcode, cObj, dotStl, stlDot, tarGZ, noExt}

FilterFileLists ==
    { <<File(1, aSTL), File(2, bGcode), File(3, cObj)>>, <<>>,
      <<File(1, cObj), File(2, aSTL)>>, <<File(1, tarGZ), File(2, aSTL)>>,
      <<File(1, dotStl), File(2, stlDot), File(3, cObj)>>,
      <<File(1, noExt), File(2, bGcode)>>, <<File(1, aSTL), File(2, aSTL)>> }
    \cup { <<File(1, n)>> : n \in FilterNames }

FilterHostTypes == { {}, {stl, obj}, {gz, stl}, {gcode}, {obj} }

\* A remote catalogue that does not change during a run: the files of
\* each thing.  File ids are unique across things.
CatalogueFiles(thing_id) ==
    CASE thing_id = 1 -> <<File(11, aSTL), File(12, bGcode)>>
      [] thing_id = 2 -> <<File(21, cObj)>>
      [] OTHER -> <<>>

-----------------------------------------------------------------------------
(* Events.                                                                 *)

Invoked(handler, arg) == [kind |-> "handler", name |-> handler, val |-> arg, data |-> ""]
Received(handler, arg, reply) == [kind |-> "handler", name |-> handler, val |-> arg, data |-> reply]
Emit(signal) == [kind |-> "emit", name |-> signal, val |-> "", data |-> ""]
Get(url) == [kind |-> "request", name |-> "GET", val |-> url, data |-> ""]
Call(fn, arg, data) == [kind |-> "call", name |-> fn, val |-> arg, data |-> data]

\* The handler that wrote the log e, and its argument.
Handler(e) == IF e = <<>> THEN "" ELSE e[1].name
Argument(e) == IF e = <<>> THEN "" ELSE e[1].val
Reply(e) == e[1].data

IsEmit(signal, ev) == ev.kind = "emit" /\ ev.name = signal
IsRequest(ev) == ev.kind = "request"
IsCall(fn, ev) == ev.kind = "call" /\ ev.name = fn

Emitted(e, signal) == Cardinality({i \in DOMAIN e : IsEmit(signal, e[i])})
Requests(e) == SelectSeq(e, IsRequest)
Calls(e, fn) == Cardinality({i \in DOMAIN e : IsCall(fn, e[i])})

-----------------------------------------------------------------------------
(* ThingiverseApiClient: request URLs.                                     *)

root_url == "https://api.thingiverse.com"

\* Settings.PER_PAGE, kept symbolic.
PER_PAGE == "{PER_PAGE}"

getThingsUrl_noPage(q, page) ==
    root_url \o "/" \o q \o "?per_page=" \o PER_PAGE \o "&page=1"

getThingsUrl(q, page) ==
    root_url \o "/" \o q \o "?per_page=" \o PER_PAGE \o "&page=" \o ToString(page)

getThingUrl(thing_id) == root_url \o "/things/" \o ToString(thing_id)

getThingFilesUrl(thing_id) == root_url \o "/things/" \o ToString(thing_id) \o "/files"

downloadThingFileUrl(file_id) == root_url \o "/files/" \o ToString(file_id) \o "/download"

\* The announcement endpoint read by getMessage.
getMessageUrl == "{MESSAGE_URL}"

-----------------------------------------------------------------------------
(* ThingiverseService: the query strings of the list operations.           *)

searchQuery(search_term) == "search/" \o search_term
likedQuery(user) == "users/" \o user \o "/likes"
collectionsQuery(user) == "users/" \o user \o "/collections"
myThingsQuery(user) == "users/" \o user \o "/things"
makesQuery(user) == "users/" \o user \o "/copies"
popularQuery == "popular"
featuredQuery == "featured"
newestQuery == "newest"
collectionDetailsQuery(collection_id) == "collections/" \o ToString(collection_id) \o "/things"

-----------------------------------------------------------------------------
(* Requests in flight.  on_failed tells whether the caller registered a    *)
(* failure handler; file_name is the name captured by the download lambda. *)

Request(kind, url, q, page, thing_id, file_name, on_failed) ==
    [kind |-> kind, url |-> url, query |-> q, page |-> page,
     thing_id |-> thing_id, file_name |-> file_name, on_failed |-> on_failed]

ThingsRequest(q, page) ==
    Request("things", getThingsUrl(q, page), q, page, 0, "", TRUE)
ThingRequest(thing_id) ==
    Request("thing", getThingUrl(thing_id), "", 0, thing_id, "", TRUE)
ThingFilesRequest(thing_id) ==
    Request("files", getThingFilesUrl(thing_id), "", 0, thing_id, "", TRUE)
DownloadRequest(file_id, file_name) ==
    Request("download", downloadThingFileUrl(file_id), "", 0, file_id, file_name, FALSE)
MessageRequest ==
    Request("message", getMessageUrl, "", 0, 0, "", FALSE)

\* The sequence s without its i-th element.
Remove(s, i) == SubSeq(s, 1, i - 1) \o SubSeq(s, i + 1, Len(s))

InFlight(kind) == {i \in DOMAIN network : network[i].kind = kind}

-----------------------------------------------------------------------------
(* Things returned by the remote service.  A Thing carries the query and   *)
(* page of the request that returned it.                                   *)

Thing(q, page, n) == [id |-> n, query |-> q, page |-> page]

PerReply == 2

\* The replies the service may give to a list request: an empty page or
\* the PerReply things of that page.
ThingsReplies(q, page) ==
    { [n \in 1..k |-> Thing(q, page, n)] : k \in {0, PerReply} }

\* A remote catalogue that does not change during a run: the number of
\* full pages it has for each query; later pages are empty.
CataloguePages(q) ==
    CASE q = "search/foo" -> 2
      [] q = "collections/7/things" -> 2
      [] q = "popular" -> 1
      [] OTHER -> 0

\* The reply of that catalogue to a list request.
CatalogueReply(q, page) ==
    [n \in 1..(IF page <= CataloguePages(q) THEN PerReply ELSE 0) |-> Thing(q, page, n)]

\* The raw payload of a thing-detail reply: public_url and url are absent
\* (or null), empty, or an address.
Item(thing_id, public_url, url) ==
    [id |-> thing_id, public_url |-> public_url, url |-> url]

\* The payloads the remote service may return for a thing.
Items(thing_id) == { Item(thing_id, Some("public"), Some("api")) }

\* The wider payloads of the specification of the reply parsers.
ItemUrls(kind) == {None, Some(""), Some(kind)}

ParseItems(thing_id) ==
    { Item(thing_id, public_url, url) :
         public_url \in ItemUrls("public"), url \in ItemUrls("api") }

\* Python truthiness of an Optional[str].
Truthy(s) == s # None /\ s[1] # ""

\* a or b, on Optional[str].
Or(a, b) == IF Truthy(a) THEN a ELSE b

parseGetThing_urlFirst(item) ==
    [id |-> item.id, url |-> Or(item.url, item.public_url)]

\* ThingiverseApiClient._parseGetThing: the Thing built from the payload.
parseGetThing(item) ==
    [id |-> item.id, url |-> Or(item.public_url, item.url)]

-----------------------------------------------------------------------------
(* Text functions used by the file-type filter:                            *)
(* pathlib.Path(f.name).suffix.lower().strip(".")                          *)

\* str.lower(), on the characters that occur in the file names.
LowerChar(c) ==
    CASE c = "S" -> "s"
      [] c = "T" -> "t"
      [] c = "L" -> "l"
      [] c = "G" -> "g"
      [] c = "Z" -> "z"
      [] OTHER -> c

lower(s) == [i \in DOMAIN s |-> LowerChar(s[i])]

\* str.rfind("."), 1-based; 0 when there is no dot.
rfindDot(s) ==
    LET dots == {i \in DOMAIN s : s[i] = "."}
    IN  IF dots = {} THEN 0 ELSE CHOOSE i \in dots : \A j \in dots : j <= i

\* PurePath.suffix of a plain file name: the text from the last dot on,
\* unless that dot is the first or the last character.
suffix(name) ==
    LET i == rfindDot(name)
    IN  IF 1 < i /\ i < Len(name) THEN SubSeq(name, i, Len(name)) ELSE <<>>

\* str.strip("."): leading and trailing dots removed.
RECURSIVE lstripDot(_)
lstripDot(s) == IF s # <<>> /\ Head(s) = "." THEN lstripDot(Tail(s)) ELSE s

RECURSIVE rstripDot(_)
rstripDot(s) ==
    IF s # <<>> /\ s[Len(s)] = "." THEN rstripDot(SubSeq(s, 1, Len(s) - 1)) ELSE s

stripDot(s) == rstripDot(lstripDot(s))

fileType_noLower(f) == stripDot(suffix(f.name))

\* The extension _onThingFilesFinished looks up in the supported types.
fileType(f) == stripDot(lower(suffix(f.name)))

\* [f for f in thing_files if ... in self._supported_file_types]
filterThingFiles(files, supported) ==
    LET Keep(f) == fileType(f) \in supported
    IN  SelectSeq(files, Keep)

-----------------------------------------------------------------------------
(* ThingiverseService: pieces of the handlers.                             *)

\* "{}".format(s) of an Optional[str].
format(s) == IF s = None THEN "None" ELSE s[1]

checkUserNameConfigured_noneOnly(name) == name # None

\* _checkUserNameConfigured, without its call of openSettings.
checkUserNameConfigured(name) == ~ (name = None \/ name[1] = "")

nextPage_same(page) == page

\* addPage: self._query_page += 1
nextPage(page) == page + 1

clearedPage_keep(page) == page

\* _clearSearchResults / _executeQuery: self._query_page = 1
clearedPage(page) == 1

extendThings_replace(old, new) == new

\* _onQueryFinished: self._things.extend(things)
extendThings(old, new) == old \o new

clearSearchResultsEvents_silent == <<Emit("activeThingChanged")>>

\* What _clearSearchResults tells the observers (hideThingDetails included).
clearSearchResultsEvents == <<Emit("activeThingChanged"), Emit("thingsChanged")>>

\* The failure dialog of _onRequestFailed.  An error object is given by
\* whether there is one, whether it has an "error" attribute, that
\* attribute, its str() and the str() of its __dict__.
Error(present, has_error, error, str, dict) ==
    [present |-> present, has_error |-> has_error, error |-> error,
     str |-> str, dict |-> dict]

Errors ==
    { Error(FALSE, FALSE, "", "None", ""),
      Error(TRUE, TRUE, "Not Found", "<JsonObject>", "{'error': 'Not Found'}"),
      Error(TRUE, TRUE, "", "<JsonObject>", "{'error': ''}"),
      Error(TRUE, FALSE, "", "<JsonObject>", "{'message': 'oops'}") }

\* Truthiness of the error: a JSONObject is truthy, None is not.
errorMessage(error) ==
    IF error.present
    THEN IF error.has_error THEN error.error ELSE error.str
    ELSE "Unknown"

messageBoxText(error) == "Thingiverse returned an error: " \o errorMessage(error) \o "."

messageBoxDetail(error) == IF error.present THEN error.dict ELSE ""

onRequestFailedEvents(error) ==
    <<Call("QMessageBox.exec", messageBoxText(error), messageBoxDetail(error))>>

-----------------------------------------------------------------------------
(* ThingiverseService: the properties read by the UI.                      *)

\* message: self._message or ""
messageText == IF Truthy(message) THEN message[1] ELSE ""

\* userName: self._user_name or ""
userName == IF Truthy(user_name) THEN user_name[1] ELSE ""

\* things, isFromCollection, isQuerying, isDownloading, activeThingFiles:
\* the attribute as it is.
thingsList == things
isFromCollection == is_from_collection
isQuerying == is_querying
isDownloading == is_downloading
activeThingFiles == thing_files

\* activeThing: the thing's fields, or None.
activeThing == thing_details

\* hasActiveThing: bool(self._thing_details)
hasActiveThing == thing_details # None

-----------------------------------------------------------------------------
(* ThingiverseService: the initial state (__init__).                       *)

Init ==
    /\ message = None
    /\ things = <<>>
    /\ query = ""
    /\ query_page = 1
    /\ is_from_collection = FALSE
    /\ is_querying = None                 \* not assigned by __init__
    /\ thing_details = None
    /\ thing_files = <<>>
    /\ is_downloading = FALSE
    /\ preferences \in UserNames          \* what an earlier session stored
    /\ user_name = preferences            \* _initSettings
    /\ supported_file_types = {}
    /\ network = <<>>
    /\ events = <<>>
    /\ commands = 0

-----------------------------------------------------------------------------
(* ThingiverseService: the commands of the UI.                             *)

\* One more command of the UI.
Command == commands < MaxCommands /\ commands' = commands + 1

\* _executeQuery(new_query, is_from_collection), called by the handler
\* that logged slot, with the page number page; more is what that handler
\* requests afterwards.
executeQuery(slot, new_query, from_collection, page, more) ==
    LET changed == Truthy(new_query)
        q == IF changed THEN new_query[1] ELSE query
        p == IF changed THEN clearedPage(page) ELSE page
    IN  /\ Len(network) + 1 + Len(more) <= MaxInFlight
        /\ query' = q
        /\ things' = IF changed THEN <<>> ELSE things
        /\ thing_details' = IF changed THEN None ELSE thing_details
        /\ query_page' = p
        /\ is_from_collection' = from_collection
        /\ is_querying' = Some(TRUE)
        /\ network' = Append(network, ThingsRequest(q, p)) \o more
        /\ events' = <<slot>>
                     \o (IF changed THEN clearSearchResultsEvents ELSE <<>>)
                     \o (IF is_from_collection # from_collection
                         THEN <<Emit("isFromCollectionChanged")>> ELSE <<>>)
                     \o <<Emit("queryingStateChanged"), Get(getThingsUrl(q, p))>>
                     \o [i \in DOMAIN more |-> Get(more[i].url)]

\* A user-scoped listing: _checkUserNameConfigured, then _executeQuery.
userQuery(slot, new_query) ==
    IF checkUserNameConfigured(user_name)
    THEN /\ executeQuery(slot, Some(new_query), FALSE, query_page, <<>>)
         /\ UNCHANGED <<message, thing_files, is_downloading, user_name,
                        supported_file_types, preferences>>
    ELSE /\ events' = <<slot, Call("showSettingsWindow", "", "")>>   \* openSettings
         /\ UNCHANGED <<serviceVars, preferences, network>>

search(search_term) ==
    /\ Command
    /\ executeQuery(Invoked("search", search_term), Some(searchQuery(search_term)), FALSE, query_page, <<>>)
    /\ UNCHANGED <<message, thing_files, is_downloading, user_name,
                   supported_file_types, preferences>>

getLiked == Command /\ userQuery(Invoked("getLiked", ""), likedQuery(format(user_name)))

getCollections == Command /\ userQuery(Invoked("getCollections", ""), collectionsQuery(format(user_name)))

getMyThings == Command /\ userQuery(Invoked("getMyThings", ""), myThingsQuery(format(user_name)))

getMakes == Command /\ userQuery(Invoked("getMakes", ""), makesQuery(format(user_name)))

getPopular ==
    /\ Command
    /\ executeQuery(Invoked("getPopular", ""), Some(popularQuery), FALSE, query_page, <<>>)
    /\ UNCHANGED <<message, thing_files, is_downloading, user_name,
                   supported_file_types, preferences>>

getFeatured ==
    /\ Command
    /\ executeQuery(Invoked("getFeatured", ""), Some(featuredQuery), FALSE, query_page, <<>>)
    /\ UNCHANGED <<message, thing_files, is_downloading, user_name,
                   supported_file_types, preferences>>

getNewest ==
    /\ Command
    /\ executeQuery(Invoked("getNewest", ""), Some(newestQuery), FALSE, query_page, <<>>)
    /\ UNCHANGED <<message, thing_files, is_downloading, user_name,
                   supported_file_types, preferences>>

addPage ==
    /\ Command
    /\ executeQuery(Invoked("addPage", ""), None, FALSE, nextPage(query_page), <<>>)
    /\ UNCHANGED <<message, thing_files, is_downloading, user_name,
                   supported_file_types, preferences>>

showCollectionDetails(collection_id) ==
    /\ Command
    /\ executeQuery(Invoked("showCollectionDetails", ToString(collection_id)),
                    Some(collectionDetailsQuery(collection_id)), TRUE, query_page, <<>>)
    /\ UNCHANGED <<message, thing_files, is_downloading, user_name,
                   supported_file_types, preferences>>

showThingDetails(thing_id) ==
    /\ Command
    /\ Len(network) + 2 <= MaxInFlight
    /\ network' = network \o <<ThingRequest(thing_id), ThingFilesRequest(thing_id)>>
    /\ events' = <<Invoked("showThingDetails", ToString(thing_id)),
                   Get(getThingUrl(thing_id)), Get(getThingFilesUrl(thing_id))>>
    /\ UNCHANGED <<serviceVars, preferences>>

hideThingDetails ==
    /\ Command
    /\ thing_details' = None
    /\ events' = <<Invoked("hideThingDetails", ""), Emit("activeThingChanged")>>
    /\ UNCHANGED <<message, things, query, query_page, is_from_collection,
                   is_querying, thing_files, is_downloading, user_name,
                   supported_file_types, preferences, network>>

downloadThingFileEvents_requestFirst(file_id) ==
    <<Get(downloadThingFileUrl(file_id)), Emit("downloadingStateChanged")>>

\* downloadThingFile: the flag is set and announced, then the request goes out.
downloadThingFileEvents(file_id) ==
    <<Emit("downloadingStateChanged"), Get(downloadThingFileUrl(file_id))>>

downloadThingFile(file_id, file_name) ==
    /\ Command
    /\ Len(network) < MaxInFlight
    /\ is_downloading' = TRUE
    /\ network' = Append(network, DownloadRequest(file_id, file_name))
    /\ events' = <<Invoked("downloadThingFile", file_name)>> \o downloadThingFileEvents(file_id)
    /\ UNCHANGED <<message, things, query, query_page, is_from_collection,
                   is_querying, thing_details, thing_files, user_name,
                   supported_file_types, preferences>>

openSettings ==
    /\ Command
    /\ events' = <<Invoked("openSettings", ""), Call("showSettingsWindow", "", "")>>
    /\ UNCHANGED <<serviceVars, preferences, network>>

newUserName_ignored(name, stored, current) == current

\* _onPreferencesChanged(name): the _user_name it leaves, given the stored
\* user name and the current one.
newUserName(name, stored, current) ==
    IF name = "user_name" THEN stored ELSE current

\* setSetting(name, value).  The preference store tells its listeners
\* (_onPreferencesChanged) when a stored value actually changes.
setSetting(name, value) ==
    /\ Command
    /\ IF name = "user_name"
       THEN /\ preferences' = Some(value)
            /\ user_name' = IF preferences # Some(value)
                             THEN newUserName(name, Some(value), user_name)
                             ELSE user_name
            /\ events' = <<Invoked("saveSetting", name), Call("setValue", name, value)>>
                         \o (IF preferences # Some(value)
                             THEN <<Emit("userNameChanged")>> ELSE <<>>)
                         \o <<Emit("userNameChanged")>>
            /\ UNCHANGED <<message, things, query, query_page, is_from_collection,
                           is_querying, thing_details, thing_files, is_downloading,
                           supported_file_types, network>>
       ELSE /\ events' = <<Invoked("saveSetting", name), Call("setValue", name, value)>>
            /\ UNCHANGED <<serviceVars, preferences, network>>

\* _onPreferencesChanged(name), called because the host has changed the
\* preference name to value outside of the service.
onPreferencesChanged(name, value) ==
    /\ Command
    /\ IF name = "user_name"
       THEN /\ preferences # Some(value)
            /\ preferences' = Some(value)
            /\ user_name' = newUserName(name, Some(value), user_name)
            /\ events' = <<Received("_onPreferencesChanged", name, value),
                           Emit("userNameChanged")>>
            /\ UNCHANGED <<message, things, query, query_page, is_from_collection,
                           is_querying, thing_details, thing_files, is_downloading,
                           supported_file_types, network>>
       ELSE /\ events' = <<Received("_onPreferencesChanged", name, value)>>
            /\ UNCHANGED <<serviceVars, preferences, network>>

\* ThingiverseExtension._showMainWindow: updateSupportedFileTypes,
\* search("ultimaker"), loadDynamicDisplayMessage.
showMainWindow(host_types) ==
    /\ Command
    /\ supported_file_types' = host_types
    /\ executeQuery(Invoked("_showMainWindow", ""), Some(searchQuery("ultimaker")), FALSE, query_page, <<MessageRequest>>)
    /\ UNCHANGED <<message, thing_files, is_downloading, user_name, preferences>>

\* updateSupportedFileTypes, called on its own.
updateSupportedFileTypes(host_types) ==
    /\ supported_file_types' = host_types
    /\ events' = <<Invoked("updateSupportedFileTypes", "")>>
    /\ UNCHANGED <<message, things, query, query_page, is_from_collection,
                   is_querying, thing_details, thing_files, is_downloading,
                   user_name, preferences, network, commands>>

-----------------------------------------------------------------------------
(* Replies.  A reply may arrive for any request in flight, in any order;   *)
(* a success goes to the on_finished callback, a failure to the on_failed  *)
(* callback when the caller registered one.                                *)

\* A callback of the API client, not a command of the UI.
Callback == UNCHANGED commands

\* _onQueryFinished(things)
onQueryFinished(i, reply) ==
    /\ Callback
    /\ network[i].kind = "things"
    /\ is_querying' = Some(FALSE)
    /\ things' = extendThings(things, reply)
    /\ events' = <<Invoked("_onQueryFinished", network[i].query),
                   Emit("queryingStateChanged"), Emit("thingsChanged")>>
    /\ network' = Remove(network, i)
    /\ UNCHANGED <<message, query, query_page, is_from_collection, thing_details,
                   thing_files, is_downloading, user_name, supported_file_types,
                   preferences>>

onThingDetailsFinished_resetsFiles(i, item) ==
    /\ Callback
    /\ network[i].kind = "thing"
    /\ thing_details' = Some(parseGetThing(item))
    /\ thing_files' = <<>>
    /\ events' = <<Received("_onThingDetailsFinished", ToString(network[i].thing_id), item),
                   Emit("activeThingChanged")>>
    /\ network' = Remove(network, i)
    /\ UNCHANGED <<message, things, query, query_page, is_from_collection,
                   is_querying, is_downloading, user_name,
                   supported_file_types, preferences>>

\* _onThingDetailsFinished(thing), with the thing parsed from the payload.
onThingDetailsFinished(i, item) ==
    /\ Callback
    /\ network[i].kind = "thing"
    /\ thing_details' = Some(parseGetThing(item))
    /\ events' = <<Received("_onThingDetailsFinished", ToString(network[i].thing_id), item),
                   Emit("activeThingChanged")>>
    /\ network' = Remove(network, i)
    /\ UNCHANGED <<message, things, query, query_page, is_from_collection,
                   is_querying, thing_files, is_downloading, user_name,
                   supported_file_types, preferences>>

\* _onThingFilesFinished(thing_files)
onThingFilesFinished(i, files) ==
    /\ Callback
    /\ network[i].kind = "files"
    /\ thing_files' = filterThingFiles(files, supported_file_types)
    /\ events' = <<Received("_onThingFilesFinished", ToString(network[i].thing_id), files),
                   Emit("activeThingFilesChanged")>>
    /\ network' = Remove(network, i)
    /\ UNCHANGED <<message, things, query, query_page, is_from_collection,
                   is_querying, thing_details, is_downloading, user_name,
                   supported_file_types, preferences>>

onDownloadFinishedEvents_flagFirst(file_bytes, file_name) ==
    <<Emit("downloadingStateChanged"),
      Call("NamedTemporaryFile.write", file_name, file_bytes),
      Call("readLocalFile", file_name, file_bytes)>>

\* _onDownloadFinished: the temporary file is written and handed to the
\* host, then the flag is cleared and announced.
onDownloadFinishedEvents(file_bytes, file_name) ==
    <<Call("NamedTemporaryFile.write", file_name, file_bytes),
      Call("readLocalFile", file_name, file_bytes),
      Emit("downloadingStateChanged")>>

\* _onDownloadFinished(file_bytes, file_name)
onDownloadFinished(i, file_bytes) ==
    /\ Callback
    /\ network[i].kind = "download"
    /\ is_downloading' = FALSE
    /\ events' = <<Invoked("_onDownloadFinished", network[i].file_name)>>
                  \o onDownloadFinishedEvents(file_bytes, network[i].file_name)
    /\ network' = Remove(network, i)
    /\ UNCHANGED <<message, things, query, query_page, is_from_collection,
                   is_querying, thing_details, thing_files, user_name,
                   supported_file_types, preferences>>

\* _onMessage(response)
onMessage(i, text) ==
    /\ Callback
    /\ network[i].kind = "message"
    /\ message' = Some(text)
    /\ events' = <<Invoked("_onMessage", text), Emit("messageChanged")>>
    /\ network' = Remove(network, i)
    /\ UNCHANGED <<things, query, query_page, is_from_collection, is_querying,
                   thing_details, thing_files, is_downloading, user_name,
                   supported_file_types, preferences>>

\* A failed request whose caller passed on_failed=self._onRequestFailed.
onRequestFailed(i, error) ==
    /\ Callback
    /\ network[i].on_failed
    /\ events' = <<Invoked("_onRequestFailed", network[i].kind)>> \o onRequestFailedEvents(error)
    /\ network' = Remove(network, i)
    /\ UNCHANGED <<serviceVars, preferences>>

\* A failed request whose caller passed no failure callback.
failedWithoutCallback(i) ==
    /\ Callback
    /\ ~ network[i].on_failed
    /\ events' = <<Invoked("", network[i].kind)>>
    /\ network' = Remove(network, i)
    /\ UNCHANGED <<serviceVars, preferences>>

-----------------------------------------------------------------------------

Next ==
    \/ \E term \in Terms : search(term)
    \/ getLiked
    \/ getCollections
    \/ getMyThings
    \/ getMakes
    \/ getPopular
    \/ getFeatured
    \/ getNewest
    \/ addPage
    \/ \E id \in CollectionIds : showCollectionDetails(id)
    \/ \E id \in ThingIds : showThingDetails(id)
    \/ hideThingDetails
    \/ \E id \in FileIds, name \in DownloadNames : downloadThingFile(id, name)
    \/ openSettings
    \/ \E name \in SettingNames, value \in SettingValues : setSetting(name, value)
    \/ \E name \in SettingNames, value \in SettingValues : onPreferencesChanged(name, value)
    \/ \E host_types \in HostFileTypes : showMainWindow(host_types)
    \/ \E i \in DOMAIN network :
          \E reply \in ThingsReplies(network[i].query, network[i].page) :
             onQueryFinished(i, reply)
    \/ \E i \in DOMAIN network :
          \E item \in Items(network[i].thing_id) : onThingDetailsFinished(i, item)
    \/ \E i \in DOMAIN network, files \in FileLists : onThingFilesFinished(i, files)
    \/ \E i \in DOMAIN network, file_bytes \in Bytes : onDownloadFinished(i, file_bytes)
    \/ \E i \in DOMAIN network, text \in Messages : onMessage(i, text)
    \/ \E i \in DOMAIN network, error \in Errors : onRequestFailed(i, error)
    \/ \E i \in DOMAIN network : failedWithoutCallback(i)

Spec == Init /\ [][Next]_vars

\* The detail replies on wider inputs: the host reports any of
\* FilterHostTypes and the remote service any of FilterFileLists and of
\* ParseItems.
FilterNext ==
    \/ \E host_types \in FilterHostTypes : updateSupportedFileTypes(host_types)
    \/ \E id \in ThingIds : showThingDetails(id)
    \/ hideThingDetails
    \/ \E i \in DOMAIN network :
          \E item \in ParseItems(network[i].thing_id) : onThingDetailsFinished(i, item)
    \/ \E i \in DOMAIN network, files \in FilterFileLists : onThingFilesFinished(i, files)

SpecFilter == Init /\ [][FilterNext]_vars

\* Paging against the catalogue: the remote service answers every list
\* request with the page of CatalogueReply, or the request fails.
PagingNext ==
    \/ \E term \in Terms : search(term)
    \/ getPopular
    \/ getFeatured
    \/ \E id \in CollectionIds : showCollectionDetails(id)
    \/ addPage
    \/ \E i \in DOMAIN network :
          onQueryFinished(i, CatalogueReply(network[i].query, network[i].page))
    \/ \E i \in DOMAIN network, error \in Errors : onRequestFailed(i, error)

SpecPaging == Init /\ [][PagingNext]_vars

\* The detail view against the catalogue: the remote service answers every
\* files request with the files of CatalogueFiles, or the request fails.
DetailsNext ==
    \/ \E host_types \in HostFileTypes : updateSupportedFileTypes(host_types)
    \/ \E id \in ThingIds : showThingDetails(id)
    \/ hideThingDetails
    \/ \E i \in DOMAIN network :
          \E item \in Items(network[i].thing_id) : onThingDetailsFinished(i, item)
    \/ \E i \in DOMAIN network :
          onThingFilesFinished(i, CatalogueFiles(network[i].thing_id))
    \/ \E i \in DOMAIN network, error \in Errors : onRequestFailed(i, error)

SpecDetails == Init /\ [][DetailsNext]_vars

TypeOK ==
    /\ query_page \in 1..(1 + MaxCommands)
    /\ Len(network) <= MaxInFlight
    /\ Len(things) <= PerReply * MaxCommands
    /\ is_downloading \in BOOLEAN
    /\ is_from_collection \in BOOLEAN

-----------------------------------------------------------------------------
(* Properties.                                                             *)

\* The commands that set a new query string.
QueryChangingHandlers ==
    {"search", "getLiked", "getCollections", "getMyThings", "getMakes",
     "getPopular", "getFeatured", "getNewest", "showCollectionDetails"}

UserHandlers == {"getLiked", "getCollections", "getMyThings", "getMakes"}

NoUserName == user_name = None \/ user_name = Some("")

\* The step is one of the four user-scoped commands.
UserScopedStep == getLiked \/ getCollections \/ getMyThings \/ getMakes

\* The step is a command that sets a new query string.
QueryChangingStep ==
    \/ \E term \in Terms : search(term)
    \/ getPopular \/ getFeatured \/ getNewest
    \/ \E id \in CollectionIds : showCollectionDetails(id)
    \/ ~ NoUserName /\ UserScopedStep

\* The requests the step has added to the network.
Issued == [k \in 1..(Len(network') - Len(network)) |-> network'[Len(network) + k]]

\* C1: every query-changing command (the user-scoped ones when a user name
\* is configured) leaves results empty and page equal to 1, and the list
\* request it issues carries page 1.
C1_QueryChangeClearsAndResets ==
    [][QueryChangingStep =>
          /\ things' = <<>>
          /\ query_page' = 1
          /\ Len(Issued) = 1
          /\ Issued[1].kind = "things"
          /\ Issued[1].page = 1
          /\ Issued[1].query = query']_vars

\* C1 happens: a query-changing command has just run while a request for
\* page 2 of an earlier query is still unanswered.
C1_Witness ==
    /\ Handler(events) \in QueryChangingHandlers
    /\ Len(Requests(events)) = 1
    /\ \E i \in InFlight("things") : network[i].page = 2 /\ network[i].query # query
    /\ query_page = 1

\* C2: addPage increases page by exactly 1, sets isQuerying, and issues one
\* list request for the existing query with the new page number; the query
\* string and the accumulated results are unchanged.
C2_AddPage ==
    [][addPage =>
          /\ query_page' = query_page + 1
          /\ is_querying' = Some(TRUE)
          /\ query' = query
          /\ things' = things
          /\ Len(Issued) = 1
          /\ Issued[1].kind = "things"
          /\ Issued[1].query = query
          /\ Issued[1].page = query_page + 1
          /\ Len(Requests(events')) = 1]_vars

\* C2 happens: addPage has just run on a query that already has results.
C2_Witness ==
    /\ Handler(events) = "addPage"
    /\ things # <<>>
    /\ query_page = 2
    /\ \E i \in InFlight("things") : network[i].page = 2 /\ network[i].query = query

\* C3: without a user name (absent or empty) the user-scoped commands issue
\* no request, ask for the settings window exactly once, and leave query,
\* page, results, isFromCollection and isQuerying unchanged.
C3_NoUserNameOpensSettings ==
    [][(NoUserName /\ UserScopedStep) =>
          /\ network' = network
          /\ Requests(events') = <<>>
          /\ Calls(events', "showSettingsWindow") = 1
          /\ UNCHANGED <<query, query_page, things, is_from_collection, is_querying>>]_vars

\* C3 happens: a user-scoped command has just run with an empty user name,
\* in a state that has results and is on page 2.
C3_Witness ==
    /\ Handler(events) \in UserHandlers
    /\ user_name = Some("")
    /\ Calls(events, "showSettingsWindow") = 1
    /\ things # <<>>
    /\ query_page = 2

\* The position of the first entry of log e that satisfies Test, 0 if none.
First(e, Test(_)) ==
    LET hits == {i \in DOMAIN e : Test(e[i])}
    IN  IF hits = {} THEN 0 ELSE CHOOSE i \in hits : \A j \in hits : i <= j

\* The step is the failure reply to request i.
FailureOf(i) == failedWithoutCallback(i) \/ \E error \in Errors : onRequestFailed(i, error)

\* C4: a failure reply to a list query sets isQuerying back to false and
\* tells the observers (queryingStateChanged).
C4_FailureEndsQuerying ==
    [][\A i \in DOMAIN network :
          (network[i].kind = "things" /\ FailureOf(i)) =>
             /\ is_querying' = Some(FALSE)
             /\ Emitted(events', "queryingStateChanged") = 1]_vars

\* C5: every failed remote call (list query, thing detail, thing files,
\* file download, dynamic message) shows exactly one failure dialog with a
\* non-empty text, and the failed request is not issued again.
C5_EveryFailureIsShown ==
    [][\A i \in DOMAIN network :
          FailureOf(i) =>
             /\ Calls(events', "QMessageBox.exec") = 1
             /\ \A k \in DOMAIN events' :
                   IsCall("QMessageBox.exec", events'[k]) => events'[k].val # ""
             /\ Requests(events') = <<>>
             /\ network' = Remove(network, i)]_vars

IsSink(ev) == IsCall("readLocalFile", ev)
IsWrite(ev) == IsCall("NamedTemporaryFile.write", ev)
IsDownloadingChanged(ev) == IsEmit("downloadingStateChanged", ev)

\* C6: downloadThingFile sets isDownloading before the download request is
\* issued, and isDownloading becomes false only in the handler that has
\* first written the received bytes to a temporary file named after the
\* file and asked the host to open it.
C6_DownloadFlag ==
    [][/\ (\E id \in FileIds, name \in DownloadNames : downloadThingFile(id, name)) =>
             /\ is_downloading'
             /\ 0 < First(events', IsDownloadingChanged)
             /\ First(events', IsDownloadingChanged) < First(events', IsRequest)
       /\ (is_downloading /\ ~ is_downloading') =>
             \E i \in InFlight("download"), file_bytes \in Bytes :
                /\ network' = Remove(network, i)
                /\ 0 < First(events', IsWrite)
                /\ First(events', IsWrite) < First(events', IsSink)
                /\ First(events', IsSink) < First(events', IsDownloadingChanged)
                /\ events'[First(events', IsWrite)].val = network[i].file_name
                /\ events'[First(events', IsWrite)].data = file_bytes
                /\ events'[First(events', IsSink)].val = network[i].file_name
                /\ events'[First(events', IsSink)].data = file_bytes]_vars

\* C6 happens: a download has just been delivered and the flag is down.
C6_Witness ==
    /\ Handler(events) = "_onDownloadFinished"
    /\ ~ is_downloading
    /\ Argument(events) = "part.stl"
    /\ \E k \in DOMAIN events :
          IsSink(events[k]) /\ events[k].val = "part.stl" /\ events[k].data = "bytes-B"

\* C7: once every download request has been answered, successfully or not,
\* isDownloading is false again.
C7_DownloadsSettle == InFlight("download") = {} => ~ is_downloading

\* C8: a successful list reply sets isQuerying to false, appends the
\* returned things to the results in their returned order, and fires the
\* things and querying-state notifications.
C8_SuccessAppends ==
    [][\A i \in DOMAIN network :
          \A reply \in ThingsReplies(network[i].query, network[i].page) :
             onQueryFinished(i, reply) =>
                /\ is_querying' = Some(FALSE)
                /\ Len(things') = Len(things) + Len(reply)
                /\ \A k \in DOMAIN things : things'[k] = things[k]
                /\ \A k \in DOMAIN reply : things'[Len(things) + k] = reply[k]
                /\ Emitted(events', "thingsChanged") = 1
                /\ Emitted(events', "queryingStateChanged") = 1]_vars

\* C8 happens: a non-empty reply has just been appended to earlier results.
C8_Witness ==
    /\ Handler(events) = "_onQueryFinished"
    /\ Len(things) = 2 * PerReply
    /\ things[1].page = 1
    /\ things[Len(things)].page = 2
    /\ is_querying = Some(FALSE)

-----------------------------------------------------------------------------
(* The URL of the list request of each command, written out.               *)

C9_Root == "https://api.thingiverse.com/"

C9_Tail(page) ==
    "?per_page={PER_PAGE}&page="
    \o (CASE page = 1 -> "1" [] page = 2 -> "2" [] page = 3 -> "3"
          [] page = 4 -> "4" [] OTHER -> "5")

\* The paths of the claim, for the terms, users and collections of the model.
C9_ClaimedPaths ==
    {"search/foo", "search/ultimaker", "popular", "featured", "newest",
     "users/alice/likes", "users/alice/things", "users/alice/copies",
     "users/bob/likes", "users/bob/things", "users/bob/copies",
     "users/alice/collections/7/things", "users/bob/collections/7/things",
     "users//collections/7/things", "users/None/collections/7/things"}

\* The paths the commands use.
C9_Path(handler, arg) ==
    CASE handler = "search" /\ arg = "foo" -> "search/foo"
      [] handler = "getLiked" -> "users/" \o userName \o "/likes"
      [] handler = "getCollections" -> "users/" \o userName \o "/collections"
      [] handler = "getMyThings" -> "users/" \o userName \o "/things"
      [] handler = "getMakes" -> "users/" \o userName \o "/copies"
      [] handler = "getPopular" -> "popular"
      [] handler = "getFeatured" -> "featured"
      [] handler = "getNewest" -> "newest"
      [] handler = "showCollectionDetails" /\ arg = "7" -> "collections/7/things"
      [] OTHER -> "?"

\* The last handler was a query-changing command that issued its request.
C9_QueryIssued ==
    Handler(events) \in QueryChangingHandlers /\ Requests(events) # <<>>

-----------------------------------------------------------------------------
(* The file-type filter, written out for the names of the model.           *)

\* The extension of each file name: lower-cased, without the dot.
C10_Extension(name) ==
    CASE name = aSTL -> stl
      [] name = bGcode -> gcode
      [] name = cObj -> obj
      [] name = tarGZ -> gz
      [] OTHER -> <<>>          \* ".stl", "d.stl." and "stl" have none

\* The files of the listing that have a supported extension.
C10_Kept(files, supported) ==
    {k \in DOMAIN files : C10_Extension(files[k].name) \in supported}

\* s is the subsequence of files at the positions kept, in their order.
C10_IsSubsequenceAt(s, files, kept) ==
    /\ Len(s) = Cardinality(kept)
    /\ \A j \in DOMAIN s :
          \E k \in kept :
             /\ s[j] = files[k]
             /\ Cardinality({m \in kept : m < k}) = j - 1

\* C10: when a thing-files reply arrives, activeThingFiles becomes exactly
\* the received files whose extension, lower-cased and without the dot, is
\* a supported type, in their order and with their original names.
C10_FilesFiltered ==
    Handler(events) = "_onThingFilesFinished" =>
       C10_IsSubsequenceAt(thing_files, Reply(events),
                           C10_Kept(Reply(events), supported_file_types))

\* C10 happens: of a.STL, b.gcode and c.obj, with stl and obj supported,
\* a.STL and c.obj are shown.
C10_Witness ==
    /\ Handler(events) = "_onThingFilesFinished"
    /\ supported_file_types = {stl, obj}
    /\ Reply(events) = <<File(1, aSTL), File(2, bGcode), File(3, cObj)>>
    /\ thing_files = <<File(1, aSTL), File(3, cObj)>>

-----------------------------------------------------------------------------
(* The url of the Thing parsed from a thing-detail payload.                *)

\* The last handler received a thing-detail payload.
C11_Parsed == Handler(events) = "_onThingDetailsFinished"

\* C11 as claimed: the Thing's url equals the payload's public_url whenever
\* public_url is present, and the payload's url when only url is present.
C11_ClaimedUrl ==
    C11_Parsed =>
       /\ Reply(events).public_url # None =>
             thing_details[1].url = Reply(events).public_url
       /\ (Reply(events).public_url = None /\ Reply(events).url # None) =>
             thing_details[1].url = Reply(events).url

\* C11 as amended: the Thing's url equals the payload's public_url whenever
\* public_url is present and not empty, and the payload's url otherwise.
C11_Url ==
    C11_Parsed =>
       /\ Reply(events).public_url \notin {None, Some("")} =>
             thing_details[1].url = Reply(events).public_url
       /\ Reply(events).public_url \in {None, Some("")} =>
             thing_details[1].url = Reply(events).url

\* C11 happens: a payload that has url and no public_url has been parsed.
C11_Witness ==
    /\ C11_Parsed
    /\ Reply(events).public_url = None
    /\ Reply(events).url = Some("api")
    /\ thing_details = Some([id |-> 2, url |-> Some("api")])

-----------------------------------------------------------------------------
(* Leaving the detail view.                                                *)

\* C12: after hideThingDetails, activeThing is absent and activeThingFiles
\* is empty; called while no thing is active it changes no state variable
\* and fires only the active-thing notification.
C12_HideClearsDetailState ==
    [][hideThingDetails =>
          /\ thing_details' = None
          /\ thing_files' = <<>>
          /\ thing_details = None =>
                /\ UNCHANGED <<serviceVars, preferences, network>>
                /\ events' = <<Invoked("hideThingDetails", ""), Emit("activeThingChanged")>>]_vars

-----------------------------------------------------------------------------
(* List requests in flight.                                                *)

\* The unanswered list requests of the current query.
SessionRequests == {i \in InFlight("things") : network[i].query = query}

\* C13: while the query string is unchanged, at most one list request is
\* in flight at any time.
C13_OnePageRequestAtATime == Cardinality(SessionRequests) <= 1

-----------------------------------------------------------------------------
(* The two replies of showThingDetails.                                    *)

\* Every variable of the service but activeThing and activeThingFiles.
C14_Others ==
    <<message, things, query, query_page, is_from_collection, is_querying,
      is_downloading, user_name, supported_file_types, preferences>>

\* C14: showThingDetails(id) issues exactly two requests, the detail and
\* the files of thing id.  The detail reply changes only activeThing, to
\* the thing of its payload; the files reply changes only activeThingFiles,
\* to the supported files of its payload.  Each result depends on its own
\* payload alone, so the DetailState after both is the same in either order.
C14_IndependentReplies ==
    [][/\ Handler(events') = "showThingDetails" =>
             /\ Len(Issued) = 2
             /\ {Issued[1].kind, Issued[2].kind} = {"thing", "files"}
             /\ ToString(Issued[1].thing_id) = Argument(events')
             /\ ToString(Issued[2].thing_id) = Argument(events')
             /\ Len(Requests(events')) = 2
       /\ Handler(events') = "_onThingDetailsFinished" =>
             /\ thing_details' # None
             /\ thing_details'[1].id = Reply(events').id
             /\ thing_files' = thing_files
             /\ UNCHANGED C14_Others
       /\ Handler(events') = "_onThingFilesFinished" =>
             /\ C10_IsSubsequenceAt(thing_files', Reply(events'),
                                    C10_Kept(Reply(events'), supported_file_types))
             /\ thing_details' = thing_details
             /\ UNCHANGED C14_Others]_vars

\* C14 happens: the files reply came first and the detail reply second,
\* and both slices of the DetailState are filled.
C14_Witness ==
    /\ Handler(events) = "_onThingDetailsFinished"
    /\ thing_files # <<>>
    /\ thing_details # None
    /\ network = <<>>

-----------------------------------------------------------------------------
(* isFromCollection.                                                       *)

\* The query strings that only showCollectionDetails sets.
C15_CollectionQueries == {"collections/7/things"}

\* C15: isFromCollection is true exactly when the current query was set by
\* showCollectionDetails, also after addPage within that collection, and
\* false for every other query kind.
C15_FromCollectionIffCollectionQuery ==
    is_from_collection <=> query \in C15_CollectionQueries

-----------------------------------------------------------------------------
(* Change notifications.                                                   *)

\* The step changes the property / the step fires the signal.
C16_Changed(signal) ==
    CASE signal = "messageChanged" -> messageText' # messageText
      [] signal = "thingsChanged" -> thingsList' # thingsList
      [] signal = "isFromCollectionChanged" -> isFromCollection' # isFromCollection
      [] signal = "userNameChanged" -> userName' # userName
      [] signal = "queryingStateChanged" -> isQuerying' # isQuerying
      [] signal = "activeThingChanged" ->
            activeThing' # activeThing \/ hasActiveThing' # hasActiveThing
      [] signal = "activeThingFilesChanged" -> activeThingFiles' # activeThingFiles
      [] signal = "downloadingStateChanged" -> isDownloading' # isDownloading

C16_Fired(signal) == Emitted(events', signal) > 0

C16_Signals ==
    {"messageChanged", "thingsChanged", "isFromCollectionChanged",
     "userNameChanged", "queryingStateChanged", "activeThingChanged",
     "activeThingFilesChanged", "downloadingStateChanged"}

\* C16 as claimed: in every step, each property's notification fires
\* exactly when the step changes the property's value.
C16_NotifiedExactlyOnChange ==
    [][\A signal \in C16_Signals : C16_Changed(signal) <=> C16_Fired(signal)]_vars

\* C16 as amended: every step that changes a property's value fires the
\* property's notification; a notification may also fire in a step that
\* leaves the value as it was.
C16_NotifiedOnChange ==
    [][\A signal \in C16_Signals : C16_Changed(signal) => C16_Fired(signal)]_vars

\* C16 happens: saving a new user name has changed userName and fired
\* userNameChanged (once by the store's listener, once by setSetting).
C16_Witness ==
    /\ Handler(events) = "saveSetting"
    /\ userName = "alice"
    /\ Emitted(events, "userNameChanged") = 2

-----------------------------------------------------------------------------
(* The user name and the preference store.                                 *)

\* The handlers that run when the stored user name changes.
C17_StoreHandlers == {"saveSetting", "_onPreferencesChanged"}

\* The queries of the user-scoped commands for the stored user name.
C17_StoredUserQueries ==
    IF preferences \in {Some("alice"), Some("bob")}
    THEN {"users/" \o preferences[1] \o tail :
             tail \in {"/likes", "/collections", "/things", "/copies"}}
    ELSE {}

\* C17: a step that changes the stored user name leaves userName equal to
\* the new stored value and fires userNameChanged; userName equals the
\* stored value in every state, and a user-scoped command that issues its
\* request asks for the stored user.
C17_UserNameFollowsStore ==
    [][/\ preferences' # preferences =>
             /\ user_name' = preferences'
             /\ Emitted(events', "userNameChanged") > 0
       /\ user_name' = preferences'
       /\ (Handler(events') \in UserHandlers /\ Requests(events') # <<>>) =>
             /\ query' \in C17_StoredUserQueries'
             /\ Requests(events')[1].val
                   = "https://api.thingiverse.com/" \o query' \o C9_Tail(1)]_vars

\* C17 happens: the stored user name was changed to bob, and the
\* user-scoped command that followed asked for bob.
C17_Witness ==
    /\ Handler(events) \in UserHandlers
    /\ preferences = Some("bob")
    /\ query \in {"users/bob/likes", "users/bob/collections",
                   "users/bob/things", "users/bob/copies"}
    /\ commands = 2

-----------------------------------------------------------------------------
(* Results and the current query.                                          *)

\* C18: the results contain only things returned by replies to requests
\* for the current query string.
C18_ResultsOfCurrentQuery == \A k \in DOMAIN things : things[k].query = query

-----------------------------------------------------------------------------
(* isQuerying and the list requests in flight.                             *)

\* C19: isQuerying is true if and only if at least one list request has
\* not yet received its success or failure reply.
C19_QueryingIffListRequestInFlight ==
    (isQuerying = Some(TRUE)) <=> (InFlight("things") # {})

-----------------------------------------------------------------------------
(* Results and the pages of the catalogue.                                 *)

\* The pages 1..k of query q, one after the other.
RECURSIVE C20_Pages(_, _)
C20_Pages(q, k) ==
    IF k = 0 THEN <<>> ELSE C20_Pages(q, k - 1) \o CatalogueReply(q, k)

\* C20: whenever no list request is in flight, the results are the replies
\* for pages 1..k of the current query, for some k, in ascending page order
\* with no page skipped or duplicated.
C20_ResultsArePagesInOrder ==
    InFlight("things") = {} =>
       \E k \in 0..(1 + MaxCommands) : things = C20_Pages(query, k)

-----------------------------------------------------------------------------
(* The thing shown and the files shown.                                    *)

\* The ids of the files the catalogue has for a thing.
C21_FileIds(thing_id) ==
    {CatalogueFiles(thing_id)[k].id : k \in DOMAIN CatalogueFiles(thing_id)}

\* C21: once no detail or files request is in flight, the files shown are
\* files of the thing shown: files of one thing are never exposed together
\* with the details of another.
C21_FilesOfActiveThing ==
    (InFlight("thing") = {} /\ InFlight("files") = {} /\ hasActiveThing) =>
       \A k \in DOMAIN activeThingFiles :
          activeThingFiles[k].id \in C21_FileIds(activeThing[1].id)

-----------------------------------------------------------------------------
(* Replies that arrive after the active thing was cleared.                 *)

\* The last handler cleared the active thing: hideThingDetails, or a
\* command that set a new query.
C22_JustCleared ==
    \/ Handler(events) = "hideThingDetails"
    \/ /\ Handler(events) \in QueryChangingHandlers \cup {"_showMainWindow"}
       /\ Requests(events) # <<>>

\* C22: once the active thing has been cleared, hasActiveThing stays false
\* until the next showThingDetails call.  Every detail request in flight
\* right after the clearing belongs to a call made before it, so the step
\* that follows the clearing does not activate a thing.
C22_ClearedStaysCleared ==
    [][(C22_JustCleared /\ ~ hasActiveThing) => ~ hasActiveThing']_vars

-----------------------------------------------------------------------------
(* The newly constructed service.                                          *)

\* No handler has run yet.
C23_NewlyConstructed == events = <<>> /\ commands = 0

\* C23: before any command, every observable is defined and the query
\* lifecycle is idle: isQuerying is false, the results are empty, the page
\* is 1, isFromCollection is false, no thing is active and isDownloading
\* is false.
C23_InitialStateIsIdle ==
    C23_NewlyConstructed =>
       /\ isQuerying = Some(FALSE)
       /\ thingsList = <<>>
       /\ query_page = 1
       /\ ~ isFromCollection
       /\ ~ hasActiveThing
       /\ activeThingFiles = <<>>
       /\ ~ isDownloading

====
